---- MODULE Spec2Model ----
(***************************************************************************)
(* Model of scrape.py: the scrape run (retry loop, incremental save, final *)
(* sort), the address query (find_address, _house_number_in_range,         *)
(* _parse_house_number) and normalize_street_name.                         *)
(*                                                                         *)
(* Strings are sequences of one-character strings.  Python values of mixed *)
(* type are records with a tag, so that they can be compared:              *)
(*   token  [isInt, n, s]      an int or a unicode string                  *)
(*   range  [isNone, keys]     None or a list of parsed house numbers      *)
(*   data   [isNone, dict]     None or a dict, the dict being the list of  *)
(*                             its values in the order of its keys         *)
(***************************************************************************)
EXTENDS Integers, Sequences, FiniteSets, TLC

VARIABLES
    listings,     \* the street list returned by _get_street_list()
    i,            \* number of listings whose loop iteration is finished
    pc,           \* position in scrape()
    name,         \* scrape(): name of the current listing
    numbers,      \* scrape(): numbers of the current listing
    data,         \* scrape(): data of the current listing
    streets,      \* scrape(): the table, name -> list of [numbers, data]
    file,         \* data.json: [state, table]
    interrupted,  \* the process was stopped from outside
    log,          \* history: outcomes of the fetch attempts of the current listing
    results,      \* history: the [name, numbers, data] appended, in order
    saves,        \* history: number of completed _save_data calls
    q,            \* the query: [table, name, number]
    answer,       \* find_address(q.table, q.name, q.number), once run
    probe,        \* one evaluation of _house_number_in_range, once run
    x,            \* input of normalize_street_name
    norm          \* [once, twice]: normalize(x), normalize(normalize(x))

vars == <<listings, i, pc, name, numbers, data, streets, file, interrupted,
          log, results, saves, q, answer, probe, x, norm>>

(***************************************************************************)
(* Characters                                                              *)
(***************************************************************************)
Digits == <<"0", "1", "2", "3", "4", "5", "6", "7", "8", "9">>

UpperLetters == <<"A", "B", "C", "D", "E", "F", "G", "H", "I", "J", "K", "L", "M",
                  "N", "O", "P", "Q", "R", "S", "T", "U", "V", "W", "X", "Y", "Z">>

LowerLetters == <<"a", "b", "c", "d", "e", "f", "g", "h", "i", "j", "k", "l", "m",
                  "n", "o", "p", "q", "r", "s", "t", "u", "v", "w", "x", "y", "z">>

\* The characters of the model in code point order.
CodePoints == <<" ", "-", ".">> \o Digits \o UpperLetters \o <<"_">>
              \o LowerLetters \o <<"~", "ß">>

Range(s) == {s[j] : j \in 1..Len(s)}

Ord(c) == CHOOSE j \in 1..Len(CodePoints) : CodePoints[j] = c

IsDigit(c) == c \in Range(Digits)

DigitValue(c) == (CHOOSE j \in 1..Len(Digits) : Digits[j] = c) - 1

IsSpace(c) == c = " "

\* \w under re.UNICODE: letters, digits and the underscore.
IsWord(c) == \/ c \in Range(Digits) \cup Range(UpperLetters) \cup Range(LowerLetters)
             \/ c \in {"_", "ß"}

IsUpper(c) == c \in Range(UpperLetters)

IsLower(c) == c \in Range(LowerLetters) \cup {"ß"}

LowerChar(c) ==
    IF IsUpper(c)
    THEN LowerLetters[CHOOSE j \in 1..Len(UpperLetters) : UpperLetters[j] = c]
    ELSE c

\* unicode.upper() maps one character to one character: u'ß'.upper() is u'ß'.
UpperChar(c) ==
    IF c \in Range(LowerLetters)
    THEN UpperLetters[CHOOSE j \in 1..Len(LowerLetters) : LowerLetters[j] = c]
    ELSE c

Lower(s) == [j \in 1..Len(s) |-> LowerChar(s[j])]

Upper(s) == [j \in 1..Len(s) |-> UpperChar(s[j])]

\* unicode.title(): a cased character is upper-cased when the character
\* before it is uncased, lower-cased otherwise.
Title(s) ==
    [j \in 1..Len(s) |->
        IF j > 1 /\ (IsUpper(s[j - 1]) \/ IsLower(s[j - 1]))
        THEN LowerChar(s[j])
        ELSE UpperChar(s[j])]

RECURSIVE LStrip(_)
LStrip(s) == IF s # <<>> /\ IsSpace(Head(s)) THEN LStrip(Tail(s)) ELSE s

RECURSIVE RStrip(_)
RStrip(s) ==
    IF s # <<>> /\ IsSpace(s[Len(s)]) THEN RStrip(SubSeq(s, 1, Len(s) - 1)) ELSE s

Strip(s) == LStrip(RStrip(s))

RECURSIVE RemoveSpace(_)
\* re.sub(r'\s', '', s)
RemoveSpace(s) ==
    IF s = <<>> THEN <<>>
    ELSE IF IsSpace(Head(s)) THEN RemoveSpace(Tail(s))
    ELSE <<Head(s)>> \o RemoveSpace(Tail(s))

RECURSIVE RemoveNonWord(_)
\* re.sub(r'[^\w]', '', s, flags=re.UNICODE)
RemoveNonWord(s) ==
    IF s = <<>> THEN <<>>
    ELSE IF IsWord(Head(s)) THEN <<Head(s)>> \o RemoveNonWord(Tail(s))
    ELSE RemoveNonWord(Tail(s))

(***************************************************************************)
(* _parse_house_number                                                     *)
(***************************************************************************)
IntToken(n) == [isInt |-> TRUE, n |-> n, s |-> <<>>]

StrToken(s) == [isInt |-> FALSE, n |-> 0, s |-> s]

RECURSIVE IntOf(_, _)
\* int(''.join(run)) of a run of digits, acc the value of the digits read
IntOf(run, acc) ==
    IF run = <<>> THEN acc ELSE IntOf(Tail(run), 10 * acc + DigitValue(Head(run)))

\* Length of the first group of itertools.groupby(s, key=isdigit), s not empty.
RECURSIVE RunLength(_)
RunLength(s) ==
    IF Len(s) = 1 \/ IsDigit(s[2]) # IsDigit(s[1]) THEN 1
    ELSE 1 + RunLength(Tail(s))

RECURSIVE GroupTokens(_)
\* [maps[x[0]](''.join(x[1])) for x in itertools.groupby(s, key=unicode.isdigit)]
GroupTokens(s) ==
    IF s = <<>> THEN <<>>
    ELSE LET k == RunLength(s)
             run == SubSeq(s, 1, k)
             tok == IF IsDigit(s[1]) THEN IntToken(IntOf(run, 0))
                    ELSE StrToken(Upper(run))
         IN  <<tok>> \o GroupTokens(SubSeq(s, k + 1, Len(s)))

_parse_house_number(number) ==
    IF Lower(number) = <<"e", "n", "d", "e">> THEN <<StrToken(<<"~">>)>>
    ELSE GroupTokens(RemoveSpace(number))

(***************************************************************************)
(* The order Python 2 gives the values of the table (list.sort, <=)        *)
(***************************************************************************)
CmpInt(a, b) == IF a < b THEN -1 ELSE IF a > b THEN 1 ELSE 0

RECURSIVE CmpStr(_, _)
\* unicode strings: by code point, a proper prefix first
CmpStr(a, b) ==
    IF a = <<>> /\ b = <<>> THEN 0
    ELSE IF a = <<>> THEN -1
    ELSE IF b = <<>> THEN 1
    ELSE IF Head(a) # Head(b) THEN CmpInt(Ord(Head(a)), Ord(Head(b)))
    ELSE CmpStr(Tail(a), Tail(b))

\* an int is smaller than any unicode string
CmpToken(a, b) ==
    IF a.isInt /\ b.isInt THEN CmpInt(a.n, b.n)
    ELSE IF a.isInt THEN -1
    ELSE IF b.isInt THEN 1
    ELSE CmpStr(a.s, b.s)

RECURSIVE CmpKey(_, _)
\* lists of tokens: parsed house numbers
CmpKey(a, b) ==
    IF a = <<>> /\ b = <<>> THEN 0
    ELSE IF a = <<>> THEN -1
    ELSE IF b = <<>> THEN 1
    ELSE IF CmpToken(Head(a), Head(b)) # 0 THEN CmpToken(Head(a), Head(b))
    ELSE CmpKey(Tail(a), Tail(b))

RECURSIVE CmpKeys(_, _)
\* lists of parsed house numbers
CmpKeys(a, b) ==
    IF a = <<>> /\ b = <<>> THEN 0
    ELSE IF a = <<>> THEN -1
    ELSE IF b = <<>> THEN 1
    ELSE IF CmpKey(Head(a), Head(b)) # 0 THEN CmpKey(Head(a), Head(b))
    ELSE CmpKeys(Tail(a), Tail(b))

None == [isNone |-> TRUE, keys |-> <<>>]

Numbers(keys) == [isNone |-> FALSE, keys |-> keys]

\* None is smaller than any list
CmpNumbers(a, b) ==
    IF a.isNone /\ b.isNone THEN 0
    ELSE IF a.isNone THEN -1
    ELSE IF b.isNone THEN 1
    ELSE CmpKeys(a.keys, b.keys)

RECURSIVE CmpDates(_, _)
\* lists of '%Y-%m-%d' strings, which order as their dates do
CmpDates(a, b) ==
    IF a = <<>> /\ b = <<>> THEN 0
    ELSE IF a = <<>> THEN -1
    ELSE IF b = <<>> THEN 1
    ELSE IF Head(a) # Head(b) THEN CmpInt(Head(a), Head(b))
    ELSE CmpDates(Tail(a), Tail(b))

RECURSIVE CmpValues(_, _)
\* the values of two dicts with the same keys, in the order of the keys
CmpValues(a, b) ==
    IF a = <<>> THEN 0
    ELSE IF CmpDates(Head(a), Head(b)) # 0 THEN CmpDates(Head(a), Head(b))
    ELSE CmpValues(Tail(a), Tail(b))

NoData == [isNone |-> TRUE, dict |-> <<>>]

Dict(values) == [isNone |-> FALSE, dict |-> values]

\* None is smaller than any dict; dicts order by length first, dicts with
\* the same keys by their values. The model has one service title, so two
\* dicts of one length have the same keys.
CmpData(a, b) ==
    IF a.isNone /\ b.isNone THEN 0
    ELSE IF a.isNone THEN -1
    ELSE IF b.isNone THEN 1
    ELSE IF Len(a.dict) # Len(b.dict) THEN CmpInt(Len(a.dict), Len(b.dict))
    ELSE CmpValues(a.dict, b.dict)

Entry(nums, dat) == [numbers |-> nums, data |-> dat]

\* the lists [numbers, data]: by numbers, then by data
CmpEntry(a, b) ==
    IF CmpNumbers(a.numbers, b.numbers) # 0 THEN CmpNumbers(a.numbers, b.numbers)
    ELSE CmpData(a.data, b.data)

(***************************************************************************)
(* _parse_street                                                           *)
(***************************************************************************)
RECURSIVE FirstDigit(_, _)
\* re.search(r'\d', s): the index of the first digit from j on, 0 if none
FirstDigit(s, j) ==
    IF j > Len(s) THEN 0 ELSE IF IsDigit(s[j]) THEN j ELSE FirstDigit(s, j + 1)

RECURSIVE SplitDash(_, _)
\* s.split('-'), cur the part being read
SplitDash(s, cur) ==
    IF s = <<>> THEN <<cur>>
    ELSE IF Head(s) = "-" THEN <<cur>> \o SplitDash(Tail(s), <<>>)
    ELSE SplitDash(Tail(s), Append(cur, Head(s)))

_parse_street(street) ==
    LET index == FirstDigit(street, 1)
        parts == SplitDash(SubSeq(street, index, Len(street)), <<>>)
    IN  IF index = 0 THEN [name |-> Title(street), numbers |-> None]
        ELSE [name |-> Title(Strip(SubSeq(street, 1, index - 1))),
              numbers |-> Numbers([j \in 1..Len(parts) |->
                                      _parse_house_number(parts[j])])]

(***************************************************************************)
(* normalize_street_name                                                   *)
(***************************************************************************)
RECURSIVE Unidecode(_)
\* unidecode(s): ASCII stays, u'ß' becomes 'ss'
Unidecode(s) ==
    IF s = <<>> THEN <<>>
    ELSE IF Head(s) = "ß" THEN <<"s", "s">> \o Unidecode(Tail(s))
    ELSE <<Head(s)>> \o Unidecode(Tail(s))

RECURSIVE ExpandStr(_)
\* re.sub(r'str\b', 'strasse', s): \b holds after the r when no word
\* character follows it
ExpandStr(s) ==
    IF s = <<>> THEN <<>>
    ELSE IF /\ Len(s) >= 3
            /\ SubSeq(s, 1, 3) = <<"s", "t", "r">>
            /\ (Len(s) = 3 \/ ~IsWord(s[4]))
    THEN <<"s", "t", "r", "a", "s", "s", "e">> \o ExpandStr(SubSeq(s, 4, Len(s)))
    ELSE <<Head(s)>> \o ExpandStr(Tail(s))

normalize_street_name(n) == RemoveNonWord(ExpandStr(Unidecode(Lower(Strip(n)))))

(***************************************************************************)
(* _house_number_in_range: "True", "False", or the exception it raises     *)
(***************************************************************************)
Bool(b) == IF b THEN "True" ELSE "False"

\* v[0] % 2 for a list v: IndexError on an empty list; on a unicode string %
\* is string formatting, and formatting 2 into a string without a
\* conversion is a TypeError
FirstMod2(v) ==
    IF v = <<>> THEN "IndexError"
    ELSE IF ~v[1].isInt THEN "TypeError"
    ELSE IF v[1].n % 2 = 0 THEN "0" ELSE "1"

IsError(r) == r \in {"IndexError", "TypeError"}

_house_number_in_range(number, range) ==
    IF range.isNone THEN "True"
    ELSE IF Len(range.keys) = 1 THEN Bool(range.keys[1] = number)
    ELSE IF IsError(FirstMod2(number)) THEN FirstMod2(number)
    ELSE IF IsError(FirstMod2(range.keys[1])) THEN FirstMod2(range.keys[1])
    ELSE IF FirstMod2(number) # FirstMod2(range.keys[1]) THEN "False"
    ELSE Bool(CmpKey(range.keys[1], number) <= 0
              /\ CmpKey(number, range.keys[2]) <= 0)

(***************************************************************************)
(* find_address: [kind, data], kind "return" or the exception raised       *)
(***************************************************************************)
Raise(e) == [kind |-> e, data |-> NoData]

RECURSIVE Scan(_, _)
\* the for loop over street_data
Scan(street_data, parsed_number) ==
    IF street_data = <<>> THEN Raise("UnknownHouseNumberException")
    ELSE LET r == _house_number_in_range(parsed_number, Head(street_data).numbers)
         IN  IF IsError(r) THEN Raise(r)
             ELSE IF r = "True"
             THEN [kind |-> "return", data |-> Head(street_data).data]
             ELSE Scan(Tail(street_data), parsed_number)

find_address(table, n, number) ==
    IF normalize_street_name(n) \notin DOMAIN table
    THEN Raise("UnknownStreetException")
    ELSE Scan(table[normalize_street_name(n)], _parse_house_number(number))

(***************************************************************************)
(* _scrape_street and the dict comprehension of scrape()                   *)
(***************************************************************************)
\* A datetime.date is <<year, month, day>>.
Strftime(d) == d[1] * 10000 + d[2] * 100 + d[3]

\* Python 2: strftime raises ValueError for a year before 1900.
StrftimeFails(d) == d[1] < 1900

\* What one attempt does: requests.get fails (ConnectionError), raise_for_status
\* fails (HTTPError), or _scrape_street returns a dict of date lists (a page).
Outcome(kind, page) == [kind |-> kind, page |-> page]

\* The exception the body of the try statement ends with, "none" if it ends.
Raises(o) ==
    IF o.kind # "page" THEN o.kind
    ELSE IF \E j \in 1..Len(o.page) : \E k \in 1..Len(o.page[j]) :
                StrftimeFails(o.page[j][k])
    THEN "ValueError"
    ELSE "none"

\* {k: [d.strftime('%Y-%m-%d') for d in v] for k, v in page.iteritems()}
Formatted(page) ==
    Dict([j \in 1..Len(page) |-> [k \in 1..Len(page[j]) |-> Strftime(page[j][k])]])

(***************************************************************************)
(* scrape()                                                                *)
(***************************************************************************)
_RETRIES_PER_STREET == 3

EmptyTable == [n \in {} |-> <<>>]

\* streets.setdefault(name, []).append(e)
SetDefaultAppend(table, n, e) ==
    IF n \in DOMAIN table THEN [table EXCEPT ![n] = Append(@, e)]
    ELSE (n :> <<e>>) @@ table

RECURSIVE Insert(_, _)
\* e put behind the entries of a sorted list that are not greater
Insert(e, sorted) ==
    IF sorted = <<>> THEN <<e>>
    ELSE IF CmpEntry(e, Head(sorted)) < 0 THEN <<e>> \o sorted
    ELSE <<Head(sorted)>> \o Insert(e, Tail(sorted))

RECURSIVE SortInto(_, _)
SortInto(value, sorted) ==
    IF value = <<>> THEN sorted
    ELSE SortInto(Tail(value), Insert(Head(value), sorted))

\* value.sort(): the list ordered by CmpEntry, equal entries in their order
Sort(value) == SortInto(value, <<>>)

\* What the except clauses make of the way the try body ended.
Handle_NoBreakOnSuccess(exc) ==
    IF exc = "ValueError" THEN "break"
    ELSE IF exc \in {"ConnectionError", "none"} THEN "continue"
    ELSE "propagate"

Handle(exc) ==
    IF exc = "ValueError" THEN "break"
    ELSE IF exc = "ConnectionError" THEN "continue"
    ELSE IF exc = "none" THEN "break"
    ELSE "propagate"

\* for _ in range(_RETRIES_PER_STREET): is there another round after n rounds
AttemptsLeft_OffByOne(n) == n <= _RETRIES_PER_STREET

AttemptsLeft(n) == n < _RETRIES_PER_STREET

Absent == [state |-> "absent", table |-> EmptyTable]

Truncated == [state |-> "truncated", table |-> EmptyTable]

Written(table) == [state |-> "written", table |-> table]

\* lines 120-123: the next street of the list, data = None
LoopHead_DataNotReset ==
    /\ pc = "loop" /\ ~interrupted
    /\ i < Len(listings)
    /\ name' = _parse_street(listings[i + 1]).name
    /\ numbers' = _parse_street(listings[i + 1]).numbers
    /\ log' = <<>>
    /\ pc' = "fetch"
    /\ UNCHANGED <<listings, i, data, streets, file, interrupted, results, saves,
                   q, answer, probe, x, norm>>

LoopHead ==
    /\ pc = "loop" /\ ~interrupted
    /\ i < Len(listings)
    /\ name' = _parse_street(listings[i + 1]).name
    /\ numbers' = _parse_street(listings[i + 1]).numbers
    /\ data' = NoData
    /\ log' = <<>>
    /\ pc' = "fetch"
    /\ UNCHANGED <<listings, i, streets, file, interrupted, results, saves,
                   q, answer, probe, x, norm>>

\* lines 124-134: one round of the retry loop
Fetch(o) ==
    /\ pc = "fetch" /\ ~interrupted
    /\ log' = Append(log, o)
    /\ data' = IF Raises(o) = "none" THEN Formatted(o.page) ELSE data
    /\ pc' = CASE Handle(Raises(o)) = "break" -> "append"
               [] Handle(Raises(o)) = "continue" ->
                      IF AttemptsLeft(Len(log) + 1) THEN "fetch" ELSE "append"
               [] OTHER -> "raised"
    /\ UNCHANGED <<listings, i, name, numbers, streets, file, interrupted,
                   results, saves, q, answer, probe, x, norm>>

\* line 135
AppendEntry ==
    /\ pc = "append" /\ ~interrupted
    /\ streets' = SetDefaultAppend(streets, name, Entry(numbers, data))
    /\ results' = Append(results, [name |-> name, entry |-> Entry(numbers, data)])
    /\ pc' = "open"
    /\ UNCHANGED <<listings, i, name, numbers, data, file, interrupted, log,
                   saves, q, answer, probe, x, norm>>

\* line 114: open('data.json', 'w') empties the file
_save_data_open ==
    /\ pc = "open" /\ ~interrupted
    /\ file' = Truncated
    /\ pc' = "dump"
    /\ UNCHANGED <<listings, i, name, numbers, data, streets, interrupted, log,
                   results, saves, q, answer, probe, x, norm>>

\* line 115 and the end of the with block: the table is in the file
_save_data_dump ==
    /\ pc = "dump" /\ ~interrupted
    /\ file' = Written(streets)
    /\ saves' = saves + 1
    /\ i' = i + 1
    /\ pc' = "loop"
    /\ UNCHANGED <<listings, name, numbers, data, streets, interrupted, log,
                   results, q, answer, probe, x, norm>>

\* lines 137-139
SortAndReturn ==
    /\ pc = "loop" /\ ~interrupted
    /\ i = Len(listings)
    /\ streets' = [n \in DOMAIN streets |-> Sort(streets[n])]
    /\ pc' = "done"
    /\ UNCHANGED <<listings, i, name, numbers, data, file, interrupted, log,
                   results, saves, q, answer, probe, x, norm>>

\* The process is stopped from outside (Ctrl-C, kill) between two steps.
Interrupt ==
    /\ pc \in {"loop", "fetch", "append", "open", "dump"} /\ ~interrupted
    /\ interrupted' = TRUE
    /\ UNCHANGED <<listings, i, pc, name, numbers, data, streets, file, log,
                   results, saves, q, answer, probe, x, norm>>

(***************************************************************************)
(* The query of __main__ and the evaluation of the pure functions          *)
(***************************************************************************)
\* lines 211-212: {normalize_street_name(key): value for key, value in data}
NormalizeKeys(table) ==
    [n \in {normalize_street_name(k) : k \in DOMAIN table} |->
        table[CHOOSE k \in DOMAIN table : normalize_street_name(k) = n]]

NoAnswer == [kind |-> "none", data |-> NoData]

NoProbe == [done |-> FALSE, number |-> <<>>, range |-> None, result |-> "none"]

NoNorm == [done |-> FALSE, once |-> <<>>, twice |-> <<>>]

NoQuery == [table |-> EmptyTable, name |-> <<>>, number |-> <<>>]

\* lines 217-223
Query ==
    /\ answer = NoAnswer
    /\ answer' = find_address(q.table, q.name, q.number)
    /\ UNCHANGED <<listings, i, pc, name, numbers, data, streets, file,
                   interrupted, log, results, saves, q, probe, x, norm>>

\* line 188, for one entry of the table
InRange(n, j) ==
    /\ ~probe.done
    /\ probe' = [done |-> TRUE,
                 number |-> _parse_house_number(q.number),
                 range |-> q.table[n][j].numbers,
                 result |-> _house_number_in_range(_parse_house_number(q.number),
                                                   q.table[n][j].numbers)]
    /\ UNCHANGED <<listings, i, pc, name, numbers, data, streets, file,
                   interrupted, log, results, saves, q, answer, x, norm>>

\* normalize_street_name on a name and on its own result
Normalize ==
    /\ ~norm.done
    /\ norm' = [done |-> TRUE,
                once |-> normalize_street_name(x),
                twice |-> normalize_street_name(normalize_street_name(x))]
    /\ UNCHANGED <<listings, i, pc, name, numbers, data, streets, file,
                   interrupted, log, results, saves, q, answer, probe, x>>

(***************************************************************************)
(* Inputs                                                                  *)
(***************************************************************************)
MaxListings == 2

MaxNameLen == 4

SeqsUpTo(S, n) == UNION {[1..m -> S] : m \in 0..n}

\* Entries of the street list.
ListingChoices ==
    { <<"a", "b", " ", "2", "-", "6">>,
      <<"a", "b", " ", "4", "-", "E", "n", "d", "e">>,
      <<"a", "b", " ", "4">>,
      <<"c", "-", "d">> }

D1899 == <<1899, 12, 31>>

D2024 == <<2024, 5, 3>>

D2025 == <<2025, 1, 7>>

\* What _scrape_street returns: no title found, or the dates of one title.
PageChoices == { <<>>, << <<D2024>> >>, << <<D2025>> >>, << <<D1899>> >> }

Outcomes ==
    {Outcome("ConnectionError", <<>>), Outcome("HTTPError", <<>>)}
    \cup {Outcome("page", p) : p \in PageChoices}

QueryNames == { <<"A", "b">>, <<" ", "a", "b", ".">>, <<"C", "-", "D">>, <<"e">> }

QueryNumbers ==
    { <<"2">>, <<"3">>, <<"4">>, <<"4", " ", "a">>, <<"6">>, <<"8">>,
      <<"E", "n", "d", "e">>, <<"a">> }

NameChars == {"s", "t", "r", "a", ".", " "}

\* The table scrape() builds from a street list and the data of its streets,
\* as appended (what data.json holds) or sorted (what scrape() returns).
RECURSIVE Built(_, _, _)
Built(ls, ds, table) ==
    IF ls = <<>> THEN table
    ELSE Built(Tail(ls), Tail(ds),
               SetDefaultAppend(table, _parse_street(Head(ls)).name,
                                Entry(_parse_street(Head(ls)).numbers, Head(ds))))

Sorted(table) == [n \in DOMAIN table |-> Sort(table[n])]

DataChoices == {NoData, Formatted(<< <<D2024>> >>), Formatted(<< <<D2025>> >>)}

Tables ==
    LET raw == UNION {{Built(ls, ds, EmptyTable) : ds \in [1..Len(ls) -> DataChoices]} :
                        ls \in SeqsUpTo(ListingChoices, MaxListings)}
    IN  {NormalizeKeys(t) : t \in raw} \cup {NormalizeKeys(Sorted(t)) : t \in raw}

(***************************************************************************)
(* Specifications                                                          *)
(***************************************************************************)
ScrapeIdle ==
    /\ listings = <<>> /\ i = 0 /\ pc = "idle"
    /\ name = <<>> /\ numbers = None /\ data = NoData
    /\ streets = EmptyTable /\ file = Absent /\ interrupted = FALSE
    /\ log = <<>> /\ results = <<>> /\ saves = 0

QueryIdle == q = NoQuery /\ answer = NoAnswer /\ probe = NoProbe

NormIdle == x = <<>> /\ norm = NoNorm

\* scrape() is called when there is no data.json (lines 205-209).
Init ==
    /\ listings \in SeqsUpTo(ListingChoices, MaxListings)
    /\ i = 0 /\ pc = "loop"
    /\ name = <<>> /\ numbers = None /\ data = NoData
    /\ streets = EmptyTable /\ file = Absent /\ interrupted = FALSE
    /\ log = <<>> /\ results = <<>> /\ saves = 0
    /\ QueryIdle /\ NormIdle

Next ==
    \/ LoopHead
    \/ \E o \in Outcomes : Fetch(o)
    \/ AppendEntry
    \/ _save_data_open
    \/ _save_data_dump
    \/ SortAndReturn
    \/ Interrupt

Spec == Init /\ [][Next]_vars

InitQuery ==
    /\ ScrapeIdle /\ NormIdle
    /\ q \in [table : Tables, name : QueryNames, number : QueryNumbers]
    /\ answer = NoAnswer /\ probe = NoProbe

NextQuery ==
    \/ Query
    \/ \E n \in DOMAIN q.table : \E j \in 1..Len(q.table[n]) : InRange(n, j)

SpecQuery == InitQuery /\ [][NextQuery]_vars

InitNorm ==
    /\ ScrapeIdle /\ QueryIdle
    /\ x \in SeqsUpTo(NameChars, MaxNameLen)
    /\ norm = NoNorm

NextNorm == Normalize

SpecNorm == InitNorm /\ [][NextNorm]_vars

(***************************************************************************)
(* Properties                                                              *)
(***************************************************************************)
Last(seq) == seq[Len(seq)]

RECURSIVE EntriesOf(_, _)
\* the entries appended under name n, in the order of their listings
EntriesOf(rs, n) ==
    IF rs = <<>> THEN <<>>
    ELSE IF Head(rs).name = n THEN <<Head(rs).entry>> \o EntriesOf(Tail(rs), n)
    ELSE EntriesOf(Tail(rs), n)

\* The entry of the current listing has been appended (line 135 is passed).
Appended == pc \in {"open", "dump"} \/ (pc \in {"loop", "done"} /\ log # <<>>)

\* The entry appended for the current listing is [numbers, d].
Recorded(d) ==
    /\ Last(results) = [name |-> name, entry |-> Entry(numbers, d)]
    /\ pc # "done" => Last(streets[name]) = Entry(numbers, d)
    /\ pc = "done" => Entry(numbers, d) \in Range(streets[name])

\* The first k attempts of the current listing failed with a connection
\* error and attempt k+1 succeeded.
FailedThenSucceeded(k) ==
    /\ Len(log) >= k + 1
    /\ \A j \in 1..k : log[j].kind = "ConnectionError"
    /\ Raises(log[k + 1]) = "none"

\* C1: if the fetch of a listing fails with a connection error on its first
\* k attempts (0 <= k < _RETRIES_PER_STREET) and succeeds on attempt k+1, no
\* further attempt is made for the listing, no exception leaves the run, and
\* the entry appended for the listing carries the data of attempt k+1.
C1_RetryThenSuccess ==
    \A k \in 0..(_RETRIES_PER_STREET - 1) :
        FailedThenSucceeded(k) =>
            /\ Len(log) = k + 1
            /\ pc \notin {"fetch", "raised"}
            /\ data = Formatted(log[k + 1].page)
            /\ Appended => Recorded(Formatted(log[k + 1].page))

\* Two connection errors, then a page with a date, and the entry is appended.
C1_Witness ==
    /\ FailedThenSucceeded(2)
    /\ pc = "open"
    /\ log[3].page = << <<D2024>> >>
    /\ Last(streets[name]).data = Dict(<< <<Strftime(D2024)>> >>)

\* All attempts of the current listing failed with a connection error.
Exhausted ==
    /\ Len(log) = _RETRIES_PER_STREET
    /\ \A j \in 1..Len(log) : log[j].kind = "ConnectionError"

\* C2: a listing is fetched at most _RETRIES_PER_STREET times, an attempt
\* other than the first directly follows a connection error of the attempt
\* before it, and when all attempts failed with a connection error the run
\* leaves the retry loop without an exception and appends the listing with
\* data None.
C2_BoundedRetries ==
    /\ Len(log) <= _RETRIES_PER_STREET
    /\ \A j \in 2..Len(log) : log[j - 1].kind = "ConnectionError"
    /\ Exhausted =>
          /\ pc \notin {"fetch", "raised"}
          /\ data = NoData
          /\ Appended => Recorded(NoData)

\* The first listing was given up after three connection errors, is in the
\* table and in the file with data None, and the next listing is up.
C2_Witness ==
    /\ Exhausted
    /\ pc = "loop" /\ i = 1 /\ i < Len(listings)
    /\ file = Written(streets)
    /\ Last(streets[name]).data = NoData

\* C3: when an attempt for a listing ends with a ValueError, it is the last
\* attempt for the listing, no exception leaves the run, and the listing is
\* appended with data None, whatever the listings before it got.
C3_NoRetryOnValueError ==
    \A j \in 1..Len(log) :
        Raises(log[j]) = "ValueError" =>
            /\ j = Len(log)
            /\ pc \notin {"fetch", "raised"}
            /\ data = NoData
            /\ Appended => Recorded(NoData)

\* The second listing ends with a ValueError on its second attempt, after
\* a first listing of the same street that got data.
C3_Witness ==
    /\ i = 1 /\ pc = "open"
    /\ ~results[1].entry.data.isNone
    /\ results[1].name = name
    /\ Len(log) = 2 /\ Raises(log[2]) = "ValueError"
    /\ results[2].entry.data = NoData

\* data.json holds a table with exactly the entries of the i finished listings.
FileHoldsFinished ==
    /\ file.state = "written"
    /\ DOMAIN file.table = {results[j].name : j \in 1..i}
    /\ \A n \in DOMAIN file.table :
          file.table[n] = EntriesOf(SubSeq(results, 1, i), n)

\* C4: _save_data is called once after each listing and before the first
\* fetch of the next one, with the whole table; between two calls data.json
\* holds one entry for each finished listing, and a run interrupted at any
\* point leaves a data.json holding all finished listings.
C4_SavedAfterEachListing ==
    /\ pc \in {"loop", "fetch", "append", "done", "raised"} =>
          /\ saves = i /\ Len(results) = i
          /\ i >= 1 => FileHoldsFinished
    /\ (interrupted /\ i >= 1) => FileHoldsFinished

\* C5: the run completes without an exception leaving it, whatever the
\* attempts do, and the table it returns has one entry for each listing
\* under the name of its street.
C5_RunNeverAborts ==
    /\ pc # "raised"
    /\ pc = "done" =>
          /\ DOMAIN streets =
                {_parse_street(listings[j]).name : j \in 1..Len(listings)}
          /\ \A n \in DOMAIN streets :
                Len(streets[n]) = Cardinality({j \in 1..Len(listings) :
                                        _parse_street(listings[j]).name = n})

RECURSIVE InsertByNumbers(_, _)
InsertByNumbers(e, sorted) ==
    IF sorted = <<>> THEN <<e>>
    ELSE IF CmpNumbers(e.numbers, Head(sorted).numbers) < 0 THEN <<e>> \o sorted
    ELSE <<Head(sorted)>> \o InsertByNumbers(e, Tail(sorted))

RECURSIVE SortByNumbersInto(_, _)
SortByNumbersInto(value, sorted) ==
    IF value = <<>> THEN sorted
    ELSE SortByNumbersInto(Tail(value), InsertByNumbers(Head(value), sorted))

\* The entries ordered by their numbers alone, entries with equal numbers
\* in the order they have in value.
StableByNumbers(value) == SortByNumbersInto(value, <<>>)

\* C9: in the table the run returns, the entries of every street are in
\* ascending order of their numbers, entries with equal numbers in the
\* order in which their listings were processed.
C9_SortedStableByRange ==
    pc = "done" =>
        \A n \in DOMAIN streets :
            streets[n] = StableByNumbers(EntriesOf(results, n))

\* C10: when the run completes, the table of the last _save_data call is
\* the table the run returns, order of the entries included, and every
\* query has the same answer on both.
C10_FileIsReturnedTable ==
    (pc = "done" /\ saves >= 1) =>
        /\ file = Written(streets)
        /\ \A n \in QueryNames : \A num \in QueryNumbers :
              find_address(NormalizeKeys(file.table), n, num)
                  = find_address(NormalizeKeys(streets), n, num)

\* contains as the claims C6 and C7 state it: a key that does not start
\* with an integer is in no bounded range.
Contains(range, key) ==
    IF range.isNone THEN TRUE
    ELSE IF Len(range.keys) = 1 THEN key = range.keys[1]
    ELSE /\ key # <<>> /\ key[1].isInt
         /\ range.keys[1] # <<>> /\ range.keys[1][1].isInt
         /\ key[1].n % 2 = range.keys[1][1].n % 2
         /\ CmpKey(range.keys[1], key) <= 0
         /\ CmpKey(key, range.keys[2]) <= 0

\* C6: find_address raises UnknownStreetException exactly when the
\* normalized name is no key of the table; otherwise it returns the data
\* of the first entry of the street whose range contains the parsed
\* number, and raises UnknownHouseNumberException exactly when there is
\* no such entry.
C6_FirstMatch ==
    answer # NoAnswer =>
        LET nn == normalize_street_name(q.name)
            key == _parse_house_number(q.number)
        IN  IF nn \notin DOMAIN q.table
            THEN answer = Raise("UnknownStreetException")
            ELSE LET hits == {j \in 1..Len(q.table[nn]) :
                                 Contains(q.table[nn][j].numbers, key)}
                 IN  IF hits = {}
                     THEN answer = Raise("UnknownHouseNumberException")
                     ELSE answer =
                            [kind |-> "return",
                             data |-> q.table[nn][CHOOSE j \in hits :
                                          \A k \in hits : j <= k].data]

\* C7: for a bounded range and any key _parse_house_number gives,
\* _house_number_in_range returns a boolean: False when the key does not
\* start with an integer or its parity is not that of the lower end, and
\* otherwise True exactly when low <= key <= high.
C7_BoundedContains ==
    (probe.done /\ ~probe.range.isNone /\ Len(probe.range.keys) >= 2) =>
        /\ probe.result \in {"True", "False"}
        /\ probe.result = "True" <=> Contains(probe.range, probe.number)

\* C8: normalize_street_name(normalize_street_name(x)) =
\* normalize_street_name(x) for every string x.
C8_NormalizeIdempotent == norm.done => norm.twice = norm.once

====
